---- MODULE Spec2Model ----
(***************************************************************************)
(* Model of Main.py: the vibration-analysis WebSocket service.             *)
(*                                                                         *)
(* One handler thread per connected client runs handle_client_message;     *)
(* the handlers share the module-level deque HISTORICAL_DATA; the main     *)
(* thread reads the deque in three list comprehensions (lines 114-118).    *)
(* Thread switches happen between the steps modelled as separate actions.  *)
(*                                                                         *)
(* Numbers: a frequency is the rational num/den, kept as [num, den]; an    *)
(* RMS value is sqrt(sumsq/n), kept as [sumsq, n] (n = 0 is numpy's nan).  *)
(* FFT magnitudes are compared through 4*|X_k|^2, which is an integer for  *)
(* the sample counts used here (n in 0..4 and n = 6).                      *)
(***************************************************************************)
EXTENDS Integers, Sequences, FiniteSets, TLC

(* ------------------------------ bounds --------------------------------- *)

\* Capacity of the history deque. The program uses deque(maxlen=100); the
\* model keeps the same deque behaviour with a small maxlen so that overflow
\* is reached.
Capacity ==
  2

\* Total number of inbound messages over all connections.
MaxMsgs ==
  3

Clients ==
  {"A", "B"}

(* ------------------------------ payloads ------------------------------- *)

\* Requests: each sample sequence with a positive rate, and the longest one
\* with a zero and a negative rate.
Requests ==
  {[vibration_data |-> << >>, sampling_rate |-> 4],
   [vibration_data |-> <<1>>, sampling_rate |-> 4],
   [vibration_data |-> <<1, 0, -1, 0>>, sampling_rate |-> 4],
   [vibration_data |-> <<1, 0, -1, 0>>, sampling_rate |-> 0],
   [vibration_data |-> <<1, 0, -1, 0>>, sampling_rate |-> -4]}

\* An inbound message text. text = "garbage" is not well-formed JSON;
\* text = "object" is a JSON object holding the keys in `keys`.
Messages ==
  {[text |-> "garbage", keys |-> {}, vibration_data |-> << >>, sampling_rate |-> 0]}
  \cup {[text |-> "object", keys |-> {"vibration_data"},
         vibration_data |-> <<1, 0, -1, 0>>, sampling_rate |-> 0]}
  \cup {[text |-> "object", keys |-> {"vibration_data", "sampling_rate"},
         vibration_data |-> r.vibration_data, sampling_rate |-> r.sampling_rate] :
         r \in Requests}

NoMessage ==
  [text |-> "none", keys |-> {}, vibration_data |-> << >>, sampling_rate |-> 0]

(* ------------------------- signal analysis ----------------------------- *)

NoException ==
  "none"

\* A result that is not there: an RMS and a frequency no analysis produces.
NoValue ==
  [RMS |-> [sumsq |-> -1, n |-> 0], DF |-> [num |-> 0, den |-> 0]]

Raise(e) ==
  [exc |-> e, value |-> NoValue]

Return(v) ==
  [exc |-> NoException, value |-> v]

RECURSIVE SumSquares(_)
SumSquares(signal) ==
  IF signal = << >> THEN 0
  ELSE Head(signal) * Head(signal) + SumSquares(Tail(signal))

\* np.sqrt(np.mean(np.square(signal))): the mean of an empty array is nan
\* (a warning, no exception).
calculate_rms(signal) ==
  [sumsq |-> SumSquares(signal), n |-> Len(signal)]

\* 2*cos(2*pi*m/n) for n in 1..4 and n = 6.
Cos2(n, m) ==
  CASE n = 1 -> 2
    [] n = 2 -> IF m = 0 THEN 2 ELSE -2
    [] n = 3 -> IF m = 0 THEN 2 ELSE -1
    [] n = 4 -> (CASE m = 0 -> 2 [] m = 1 -> 0 [] m = 2 -> -2 [] m = 3 -> 0)
    [] n = 6 -> (CASE m = 0 -> 2 [] m = 1 -> 1 [] m = 2 -> -1 [] m = 3 -> -2
                   [] m = 4 -> -1 [] m = 5 -> 1)

\* 2*sin(2*pi*m/n) / SinUnit(n) for n in 1..4 and n = 6, where
\* SinUnit(3) = SinUnit(6) = sqrt(3) and SinUnit(n) = 1 otherwise.
Sin2(n, m) ==
  CASE n = 1 -> 0
    [] n = 2 -> 0
    [] n = 3 -> (CASE m = 0 -> 0 [] m = 1 -> 1 [] m = 2 -> -1)
    [] n = 4 -> (CASE m = 0 -> 0 [] m = 1 -> 2 [] m = 2 -> 0 [] m = 3 -> -2)
    [] n = 6 -> (CASE m = 0 -> 0 [] m = 1 -> 1 [] m = 2 -> 1 [] m = 3 -> 0
                   [] m = 4 -> -1 [] m = 5 -> -1)

\* SinUnit(n)^2
SinUnitSq(n) ==
  IF n = 3 \/ n = 6 THEN 3 ELSE 1

RECURSIVE DotCos(_, _, _)
DotCos(signal, k, j) ==
  IF j > Len(signal) THEN 0
  ELSE signal[j] * Cos2(Len(signal), ((j - 1) * k) % Len(signal))
       + DotCos(signal, k, j + 1)

RECURSIVE DotSin(_, _, _)
DotSin(signal, k, j) ==
  IF j > Len(signal) THEN 0
  ELSE signal[j] * Sin2(Len(signal), ((j - 1) * k) % Len(signal))
       + DotSin(signal, k, j + 1)

\* np.abs(np.fft.fft(signal)), as 4*|X_k|^2 for the bins k = 0..n-1
\* (element i of the sequence is bin i-1).
fft_abs(signal) ==
  [i \in 1..Len(signal) |->
     DotCos(signal, i - 1, 1) * DotCos(signal, i - 1, 1)
     + SinUnitSq(Len(signal)) * DotSin(signal, i - 1, 1) * DotSin(signal, i - 1, 1)]

\* np.fft.fftfreq(n, d=1/sampling_rate): bins 0..(n-1)//2 then -(n//2)..-1,
\* each times sampling_rate/n. Called with n >= 1 and sampling_rate # 0.
fftfreq(n, sampling_rate) ==
  [i \in 1..n |->
     [num |-> (IF i - 1 <= (n - 1) \div 2 THEN i - 1 ELSE i - 1 - n) * sampling_rate,
      den |-> n]]

\* seq[:m]
Slice(seq, m) ==
  SubSeq(seq, 1, IF m < Len(seq) THEN m ELSE Len(seq))

\* perform_fft: 1 / sampling_rate raises for sampling_rate = 0, and fftfreq
\* raises for n = 0 (1.0 / (n * d)); both are ZeroDivisionError.
perform_fft(signal, sampling_rate) ==
  IF sampling_rate = 0 \/ Len(signal) = 0 THEN Raise("ZeroDivisionError")
  ELSE Return([freqs |-> Slice(fftfreq(Len(signal), sampling_rate), Len(signal) \div 2),
               fft_values |-> Slice(fft_abs(signal), Len(signal) \div 2)])

\* A search for the maximum that leaves out the first element (the DC bin).
argmax_without_dc(values) ==
  IF Len(values) = 1 THEN 1
  ELSE CHOOSE i \in 2..Len(values) :
         /\ \A j \in 2..Len(values) : values[j] <= values[i]
         /\ \A j \in 2..(i - 1) : values[j] < values[i]

\* np.argmax: the first index of the maximum (1-based here); the caller
\* handles the empty sequence, on which numpy raises ValueError.
argmax(values) ==
  CHOOSE i \in 1..Len(values) :
    /\ \A j \in 1..Len(values) : values[j] <= values[i]
    /\ \A j \in 1..(i - 1) : values[j] < values[i]

analyze_vibration_data(vibration_data, sampling_rate) ==
  LET rms_value == calculate_rms(vibration_data)
      fft == perform_fft(vibration_data, sampling_rate)
  IN  IF fft.exc # NoException THEN Raise(fft.exc)
      ELSE IF Len(fft.value.fft_values) = 0 THEN Raise("ValueError")
      ELSE Return([RMS |-> rms_value,
                   DF |-> fft.value.freqs[argmax(fft.value.fft_values)]])

\* Lines 75-77: json.loads and the two key lookups.
decode(msg) ==
  IF msg.text # "object" THEN Raise("JSONDecodeError")
  ELSE IF "vibration_data" \notin msg.keys THEN Raise("KeyError")
  ELSE IF "sampling_rate" \notin msg.keys THEN Raise("KeyError")
  ELSE Return(NoValue)

\* Lines 75-78: the part of the try block before the history update.
analyze_message(msg) ==
  IF decode(msg).exc # NoException THEN decode(msg)
  ELSE analyze_vibration_data(msg.vibration_data, msg.sampling_rate)

(* ----------------------------- history --------------------------------- *)

NoEntry ==
  [Timestamp |-> -1, RMS |-> NoValue.RMS, DF |-> NoValue.DF]

\* An entry appended before its last field is set.
NewEntryPartial(timestamp, results) ==
  [Timestamp |-> timestamp, RMS |-> results.RMS, DF |-> NoValue.DF]

\* The dict literal of update_historical_data.
NewEntry(timestamp, results) ==
  [Timestamp |-> timestamp, RMS |-> results.RMS, DF |-> results.DF]

\* A list append: no maxlen.
deque_append_unbounded(dq, e) ==
  Append(dq, e)

\* A full deque that drops its newest entry instead of its oldest.
deque_append_drop_newest(dq, e) ==
  IF Len(dq) >= Capacity THEN Append(SubSeq(dq, 1, Len(dq) - 1), e) ELSE Append(dq, e)

\* deque.appendleft: the entry goes to the front, the rightmost one is dropped
\* when full.
deque_appendleft(dq, e) ==
  IF Len(dq) >= Capacity THEN <<e>> \o SubSeq(dq, 1, Len(dq) - 1) ELSE <<e>> \o dq

\* deque(maxlen=Capacity).append: drops the leftmost entry when full.
deque_append(dq, e) ==
  IF Len(dq) >= Capacity THEN Append(Tail(dq), e) ELSE Append(dq, e)

(* ------------------------------ replies -------------------------------- *)

\* json.dumps(analysis_results)
result_body(results) ==
  [kind |-> "result", error |-> NoException, RMS |-> results.RMS, DF |-> results.DF]

\* json.dumps({"error": str(e)})
error_body(e) ==
  [kind |-> "error", error |-> e, RMS |-> NoValue.RMS, DF |-> NoValue.DF]

\* server.send_message_to_all(payload): a broadcast.
send_message_to_all(wire, client, origin, body) ==
  wire \cup {[to |-> x, from |-> origin, kind |-> body.kind] : x \in Clients}

\* server.send_message(client, payload) from the handler of `origin`:
\* one delivery, to `client` only.
send_message(wire, client, origin, body) ==
  wire \cup {[to |-> client, from |-> origin, kind |-> body.kind]}

(* ------------------------------- state --------------------------------- *)

VARIABLES
  HISTORICAL_DATA,   \* the deque
  now,               \* last value datetime.now() returned
  clients,           \* server.clients
  peer,              \* per client: "absent", "connected", "gone"
  pc,                \* per client: position of its handler thread
  message,           \* per client: the message being handled
  msgid,             \* per client: ordinal, on its connection, of the message being handled
  analysis_results,  \* per client: local of handle_client_message
  entry,             \* per client: the dict built by update_historical_data
  error_message,     \* per client: str(e) in the except block
  reply,             \* per client: bodies delivered by the current call
  prev,              \* per client: how the previous message on the connection ended
  received,          \* number of messages taken from the transport
  sent,              \* deliveries made by server.send_message
  log,               \* every entry ever appended, oldest first
  dq_state,          \* the deque's mutation counter, which its iterators check
  rpc,               \* position of the main thread in lines 114-118
  iter,              \* the deque iterator of the running comprehension
  timestamps,        \* line 116
  rms_values,        \* line 117
  dominant_frequencies,  \* line 118
  probe,             \* the arguments of one call of the analysis on its own
  outcome            \* what that call returned or raised

vars ==
  <<HISTORICAL_DATA, now, clients, peer, pc, message, msgid, analysis_results,
    entry, error_message, reply, prev, received, sent, log, dq_state,
    rpc, iter, timestamps, rms_values, dominant_frequencies, probe, outcome>>

shared ==
  <<HISTORICAL_DATA, now, sent, log, dq_state>>

reader ==
  <<rpc, iter, timestamps, rms_values, dominant_frequencies>>

handlers ==
  <<clients, peer, pc, received>>

bench ==
  <<probe, outcome>>

\* No call of the analysis on its own is under way.
NoProbe ==
  [kind |-> "none"]

\* The call has not returned yet.
NoOutcome ==
  [exc |-> "pending", value |-> NoValue]

NoIterator ==
  [state |-> 0, counter |-> 0, index |-> 0]

Init ==
  /\ HISTORICAL_DATA = << >>
  /\ now = 0
  /\ clients = {}
  /\ peer = [c \in Clients |-> "absent"]
  /\ pc = [c \in Clients |-> "idle"]
  /\ message = [c \in Clients |-> NoMessage]
  /\ msgid = [c \in Clients |-> 0]
  /\ analysis_results = [c \in Clients |-> NoValue]
  /\ entry = [c \in Clients |-> NoEntry]
  /\ error_message = [c \in Clients |-> NoException]
  /\ reply = [c \in Clients |-> << >>]
  /\ prev = [c \in Clients |-> "none"]
  /\ received = 0
  /\ sent = {}
  /\ log = << >>
  /\ dq_state = 0
  /\ rpc = "start"
  /\ iter = NoIterator
  /\ timestamps = << >>
  /\ rms_values = << >>
  /\ dominant_frequencies = << >>
  /\ probe = NoProbe
  /\ outcome = NoOutcome

locals ==
  <<message, msgid, analysis_results, entry, error_message, reply, prev>>

(* --------------------------- connections ------------------------------- *)

\* The transport accepts a connection and calls handle_new_client, which
\* only prints.
handle_new_client(c) ==
  /\ peer[c] = "absent"
  /\ peer' = [peer EXCEPT ![c] = "connected"]
  /\ clients' = clients \cup {c}
  /\ UNCHANGED <<pc, received>>
  /\ UNCHANGED locals
  /\ UNCHANGED shared
  /\ UNCHANGED reader
  /\ UNCHANGED bench

\* The remote end closes its socket; the handler thread may be anywhere.
PeerClose(c) ==
  /\ peer[c] = "connected"
  /\ peer' = [peer EXCEPT ![c] = "gone"]
  /\ UNCHANGED <<clients, pc, received>>
  /\ UNCHANGED locals
  /\ UNCHANGED shared
  /\ UNCHANGED reader
  /\ UNCHANGED bench

\* A disconnect handler that also forgets the history.
handle_client_left_clearing(c) ==
  /\ c \in clients
  /\ \/ pc[c] = "idle" /\ peer[c] = "gone"
     \/ pc[c] = "crashed"
  /\ clients' = clients \ {c}
  /\ peer' = [peer EXCEPT ![c] = "gone"]
  /\ HISTORICAL_DATA' = << >>
  /\ dq_state' = dq_state + 1
  /\ UNCHANGED <<now, sent, log>>
  /\ UNCHANGED <<pc, received>>
  /\ UNCHANGED locals
  /\ UNCHANGED reader
  /\ UNCHANGED bench

\* The transport notices the end of the connection (the peer is gone or the
\* handler raised) and calls handle_client_left, which only prints.
handle_client_left(c) ==
  /\ c \in clients
  /\ \/ pc[c] = "idle" /\ peer[c] = "gone"
     \/ pc[c] = "crashed"
  /\ clients' = clients \ {c}
  /\ peer' = [peer EXCEPT ![c] = "gone"]
  /\ UNCHANGED <<pc, received>>
  /\ UNCHANGED locals
  /\ UNCHANGED shared
  /\ UNCHANGED reader
  /\ UNCHANGED bench

(* ----------------------- handle_client_message ------------------------- *)

\* Lines 75-78: decode and analyse; no shared state is touched.
Receive(c, msg) ==
  /\ c \in clients
  /\ peer[c] = "connected"
  /\ pc[c] = "idle"
  /\ received < MaxMsgs
  /\ received' = received + 1
  /\ message' = [message EXCEPT ![c] = msg]
  /\ msgid' = [msgid EXCEPT ![c] = @ + 1]
  /\ reply' = [reply EXCEPT ![c] = << >>]
  /\ IF analyze_message(msg).exc = NoException
     THEN /\ analysis_results' = [analysis_results EXCEPT ![c] = analyze_message(msg).value]
          /\ pc' = [pc EXCEPT ![c] = "update"]
          /\ UNCHANGED error_message
     ELSE /\ error_message' = [error_message EXCEPT ![c] = analyze_message(msg).exc]
          /\ pc' = [pc EXCEPT ![c] = "except"]
          /\ UNCHANGED analysis_results
  /\ UNCHANGED <<clients, peer, entry, prev>>
  /\ UNCHANGED shared
  /\ UNCHANGED reader
  /\ UNCHANGED bench

\* datetime.now(): the clock has moved on since the last read.
datetime_now(last) ==
  last + 1

\* Lines 43-47, first half: the dict is built, with the time of this moment.
BuildEntry(c) ==
  /\ pc[c] = "update"
  /\ now' = datetime_now(now)
  /\ entry' = [entry EXCEPT ![c] = NewEntry(datetime_now(now), analysis_results[c])]
  /\ pc' = [pc EXCEPT ![c] = "append"]
  /\ UNCHANGED <<HISTORICAL_DATA, sent, log, dq_state, clients, peer, received>>
  /\ UNCHANGED reader
  /\ UNCHANGED bench
  /\ UNCHANGED <<message, msgid, analysis_results, error_message, reply, prev>>

\* Line 43, second half: HISTORICAL_DATA.append(dict).
AppendEntry(c) ==
  /\ pc[c] = "append"
  /\ HISTORICAL_DATA' = deque_append(HISTORICAL_DATA, entry[c])
  /\ dq_state' = dq_state + 1
  /\ log' = Append(log, [entry |-> entry[c], from |-> c, id |-> msgid[c],
                         msg |-> message[c]])
  /\ pc' = [pc EXCEPT ![c] = "send"]
  /\ UNCHANGED <<now, sent, clients, peer, received>>
  /\ UNCHANGED reader
  /\ UNCHANGED bench
  /\ UNCHANGED locals

\* A handler that sends the result and then falls into its except block.
SendResultThenError(c) ==
  /\ pc[c] = "send"
  /\ IF peer[c] = "connected"
     THEN /\ sent' = send_message(sent, c, c, result_body(analysis_results[c]))
          /\ reply' = [reply EXCEPT ![c] = Append(@, result_body(analysis_results[c]))]
          /\ error_message' = [error_message EXCEPT ![c] = "Exception"]
     ELSE /\ error_message' = [error_message EXCEPT ![c] = "BrokenPipeError"]
          /\ UNCHANGED <<sent, reply>>
  /\ pc' = [pc EXCEPT ![c] = "except"]
  /\ UNCHANGED <<HISTORICAL_DATA, now, log, dq_state, clients, peer, received>>
  /\ UNCHANGED reader
  /\ UNCHANGED bench
  /\ UNCHANGED <<message, msgid, analysis_results, entry, prev>>

\* A handler that answers with the newest entry of the shared history
\* instead of its own analysis_results.
SendResultFromHistory(c) ==
  /\ pc[c] = "send"
  /\ IF peer[c] = "connected"
     THEN /\ sent' = send_message(sent, c, c,
                                  result_body(HISTORICAL_DATA[Len(HISTORICAL_DATA)]))
          /\ reply' = [reply EXCEPT ![c] =
                         Append(@, result_body(HISTORICAL_DATA[Len(HISTORICAL_DATA)]))]
          /\ pc' = [pc EXCEPT ![c] = "return"]
          /\ UNCHANGED error_message
     ELSE /\ error_message' = [error_message EXCEPT ![c] = "BrokenPipeError"]
          /\ pc' = [pc EXCEPT ![c] = "except"]
          /\ UNCHANGED <<sent, reply>>
  /\ UNCHANGED <<HISTORICAL_DATA, now, log, dq_state, clients, peer, received>>
  /\ UNCHANGED reader
  /\ UNCHANGED bench
  /\ UNCHANGED <<message, msgid, analysis_results, entry, prev>>

\* Line 80: send the result; a send to a closed connection raises, and the
\* except block of line 81 catches it.
SendResult(c) ==
  /\ pc[c] = "send"
  /\ IF peer[c] = "connected"
     THEN /\ sent' = send_message(sent, c, c, result_body(analysis_results[c]))
          /\ reply' = [reply EXCEPT ![c] = Append(@, result_body(analysis_results[c]))]
          /\ pc' = [pc EXCEPT ![c] = "return"]
          /\ UNCHANGED error_message
     ELSE /\ error_message' = [error_message EXCEPT ![c] = "BrokenPipeError"]
          /\ pc' = [pc EXCEPT ![c] = "except"]
          /\ UNCHANGED <<sent, reply>>
  /\ UNCHANGED <<HISTORICAL_DATA, now, log, dq_state, clients, peer, received>>
  /\ UNCHANGED reader
  /\ UNCHANGED bench
  /\ UNCHANGED <<message, msgid, analysis_results, entry, prev>>

\* An except block that also records an entry in the history.
SendErrorAndRecord(c) ==
  /\ pc[c] = "except"
  /\ IF peer[c] = "connected"
     THEN /\ sent' = send_message(sent, c, c, error_body(error_message[c]))
          /\ reply' = [reply EXCEPT ![c] = Append(@, error_body(error_message[c]))]
          /\ pc' = [pc EXCEPT ![c] = "return"]
     ELSE /\ pc' = [pc EXCEPT ![c] = "crashed"]
          /\ UNCHANGED <<sent, reply>>
  /\ HISTORICAL_DATA' = deque_append(HISTORICAL_DATA, NewEntry(now, NoValue))
  /\ dq_state' = dq_state + 1
  /\ log' = Append(log, [entry |-> NewEntry(now, NoValue), from |-> c,
                         id |-> msgid[c], msg |-> message[c]])
  /\ UNCHANGED <<now, clients, peer, received>>
  /\ UNCHANGED reader
  /\ UNCHANGED bench
  /\ UNCHANGED <<message, msgid, analysis_results, entry, error_message, prev>>

\* Lines 82-83: send the error object; nothing catches a failure of this send.
SendError(c) ==
  /\ pc[c] = "except"
  /\ IF peer[c] = "connected"
     THEN /\ sent' = send_message(sent, c, c, error_body(error_message[c]))
          /\ reply' = [reply EXCEPT ![c] = Append(@, error_body(error_message[c]))]
          /\ pc' = [pc EXCEPT ![c] = "return"]
     ELSE /\ pc' = [pc EXCEPT ![c] = "crashed"]
          /\ UNCHANGED <<sent, reply>>
  /\ UNCHANGED <<HISTORICAL_DATA, now, log, dq_state, clients, peer, received>>
  /\ UNCHANGED reader
  /\ UNCHANGED bench
  /\ UNCHANGED <<message, msgid, analysis_results, entry, error_message, prev>>

\* How a handled message ended, as far as the next message can tell.
Outcome(msg) ==
  IF decode(msg).exc # NoException THEN "decode_failed" ELSE "decoded"

\* handle_client_message returns; its locals are gone.
Return_(c) ==
  /\ pc[c] = "return"
  /\ pc' = [pc EXCEPT ![c] = "idle"]
  /\ prev' = [prev EXCEPT ![c] = Outcome(message[c])]
  /\ message' = [message EXCEPT ![c] = NoMessage]
  /\ analysis_results' = [analysis_results EXCEPT ![c] = NoValue]
  /\ entry' = [entry EXCEPT ![c] = NoEntry]
  /\ error_message' = [error_message EXCEPT ![c] = NoException]
  /\ reply' = [reply EXCEPT ![c] = << >>]
  /\ UNCHANGED <<msgid, clients, peer, received>>
  /\ UNCHANGED shared
  /\ UNCHANGED reader
  /\ UNCHANGED bench

Next ==
  \/ \E c \in Clients : handle_new_client(c)
  \/ \E c \in Clients : PeerClose(c)
  \/ \E c \in Clients : handle_client_left(c)
  \/ \E c \in Clients : \E msg \in Messages : Receive(c, msg)
  \/ \E c \in Clients : BuildEntry(c)
  \/ \E c \in Clients : AppendEntry(c)
  \/ \E c \in Clients : SendResult(c)
  \/ \E c \in Clients : SendError(c)
  \/ \E c \in Clients : Return_(c)

Spec ==
  Init /\ [][Next]_vars

(* ------------------- the read of lines 114-118 ------------------------- *)

\* Line 114: if HISTORICAL_DATA:
ReadCheck ==
  /\ rpc = "start"
  /\ rpc' = IF Len(HISTORICAL_DATA) > 0 THEN "begin_timestamps" ELSE "skip"
  /\ UNCHANGED <<iter, timestamps, rms_values, dominant_frequencies>>
  /\ UNCHANGED handlers
  /\ UNCHANGED bench
  /\ UNCHANGED locals
  /\ UNCHANGED shared

\* iter(HISTORICAL_DATA): the iterator records the deque's length and its
\* mutation counter.
deque_iter(dq, state) ==
  [state |-> state, counter |-> Len(dq), index |-> 0]

\* The start of one of the three list comprehensions.
ReadBegin ==
  /\ rpc \in {"begin_timestamps", "begin_rms_values", "begin_dominant_frequencies"}
  /\ iter' = deque_iter(HISTORICAL_DATA, dq_state)
  /\ rpc' = CASE rpc = "begin_timestamps" -> "timestamps"
              [] rpc = "begin_rms_values" -> "rms_values"
              [] rpc = "begin_dominant_frequencies" -> "dominant_frequencies"
  /\ UNCHANGED <<timestamps, rms_values, dominant_frequencies>>
  /\ UNCHANGED handlers
  /\ UNCHANGED bench
  /\ UNCHANGED locals
  /\ UNCHANGED shared

\* One next() of the running comprehension: RuntimeError when the deque was
\* mutated since iter(), the end of the comprehension when the iterator is
\* exhausted, one more element of the list otherwise.
ReadNext ==
  /\ rpc \in {"timestamps", "rms_values", "dominant_frequencies"}
  /\ IF iter.state # dq_state
     THEN /\ rpc' = "RuntimeError"
          /\ UNCHANGED <<iter, timestamps, rms_values, dominant_frequencies>>
     ELSE IF iter.counter = 0
     THEN /\ rpc' = CASE rpc = "timestamps" -> "begin_rms_values"
                      [] rpc = "rms_values" -> "begin_dominant_frequencies"
                      [] rpc = "dominant_frequencies" -> "plot"
          /\ iter' = NoIterator
          /\ UNCHANGED <<timestamps, rms_values, dominant_frequencies>>
     ELSE /\ iter' = [iter EXCEPT !.counter = @ - 1, !.index = @ + 1]
          /\ timestamps' = IF rpc = "timestamps"
                           THEN Append(timestamps, HISTORICAL_DATA[iter.index + 1].Timestamp)
                           ELSE timestamps
          /\ rms_values' = IF rpc = "rms_values"
                           THEN Append(rms_values, HISTORICAL_DATA[iter.index + 1].RMS)
                           ELSE rms_values
          /\ dominant_frequencies' =
               IF rpc = "dominant_frequencies"
               THEN Append(dominant_frequencies, HISTORICAL_DATA[iter.index + 1].DF)
               ELSE dominant_frequencies
          /\ UNCHANGED rpc
  /\ UNCHANGED handlers
  /\ UNCHANGED bench
  /\ UNCHANGED locals
  /\ UNCHANGED shared

\* The messages that matter to the read: the ones that append an entry.
ReaderMessages ==
  {m \in Messages : analyze_message(m).exc = NoException}

\* The state after handle_new_client has run for every client: all
\* connections are open and no message has been received.
InitReader ==
  /\ HISTORICAL_DATA = << >>
  /\ now = 0
  /\ clients = Clients
  /\ peer = [c \in Clients |-> "connected"]
  /\ pc = [c \in Clients |-> "idle"]
  /\ message = [c \in Clients |-> NoMessage]
  /\ msgid = [c \in Clients |-> 0]
  /\ analysis_results = [c \in Clients |-> NoValue]
  /\ entry = [c \in Clients |-> NoEntry]
  /\ error_message = [c \in Clients |-> NoException]
  /\ reply = [c \in Clients |-> << >>]
  /\ prev = [c \in Clients |-> "none"]
  /\ received = 0
  /\ sent = {}
  /\ log = << >>
  /\ dq_state = 0
  /\ rpc = "start"
  /\ iter = NoIterator
  /\ timestamps = << >>
  /\ rms_values = << >>
  /\ dominant_frequencies = << >>
  /\ probe = NoProbe
  /\ outcome = NoOutcome

\* The handlers of open connections together with the main thread's read.
NextReader ==
  \/ \E c \in Clients : \E msg \in ReaderMessages : Receive(c, msg)
  \/ \E c \in Clients : BuildEntry(c)
  \/ \E c \in Clients : AppendEntry(c)
  \/ \E c \in Clients : SendResult(c)
  \/ \E c \in Clients : Return_(c)
  \/ ReadCheck
  \/ ReadBegin
  \/ ReadNext

SpecReader ==
  InitReader /\ [][NextReader]_vars

(* --------------------- the analysis on its own ------------------------- *)

\* The service as Init leaves it, while the analysis is called on its own.
ServiceAtStart ==
  /\ HISTORICAL_DATA = << >>
  /\ now = 0
  /\ clients = {}
  /\ peer = [c \in Clients |-> "absent"]
  /\ pc = [c \in Clients |-> "idle"]
  /\ message = [c \in Clients |-> NoMessage]
  /\ msgid = [c \in Clients |-> 0]
  /\ analysis_results = [c \in Clients |-> NoValue]
  /\ entry = [c \in Clients |-> NoEntry]
  /\ error_message = [c \in Clients |-> NoException]
  /\ reply = [c \in Clients |-> << >>]
  /\ prev = [c \in Clients |-> "none"]
  /\ received = 0
  /\ sent = {}
  /\ log = << >>
  /\ dq_state = 0
  /\ rpc = "start"
  /\ iter = NoIterator
  /\ timestamps = << >>
  /\ rms_values = << >>
  /\ dominant_frequencies = << >>

\* Sample values, sample counts (the ones fft_abs covers) and rates of the
\* calls of analyze_vibration_data.
Samples ==
  {-1, 0, 1}

Lengths ==
  {0, 1, 2, 3, 4, 6}

Rates ==
  {-4, 0, 1, 4}

AnalyzeProbes ==
  {[kind |-> "samples", vibration_data |-> v, sampling_rate |-> r] :
     v \in UNION {[1..l -> Samples] : l \in Lengths}, r \in Rates}

\* analysis_results = analyze_vibration_data(vibration_data, sampling_rate)
Analyze ==
  /\ probe.kind = "samples"
  /\ outcome = NoOutcome
  /\ outcome' = analyze_vibration_data(probe.vibration_data, probe.sampling_rate)
  /\ UNCHANGED probe
  /\ UNCHANGED handlers
  /\ UNCHANGED locals
  /\ UNCHANGED shared
  /\ UNCHANGED reader

InitAnalyze ==
  /\ ServiceAtStart
  /\ probe \in AnalyzeProbes
  /\ outcome = NoOutcome

NextAnalyze ==
  Analyze

SpecAnalyze ==
  InitAnalyze /\ [][NextAnalyze]_vars

(* ------------------- the analysis of a sinusoid ------------------------ *)

\* Largest sample count of the sinusoids.
MaxN ==
  7

\* What rounding leaves in a bin whose exact value is 0, next to a peak of n.
Residues ==
  {0, 1}

SinusoidRates ==
  {1, 4}

\* np.abs(np.fft.fft(signal)) for n samples of the sinusoid of bin k0 (the
\* constant 1 for k0 = 0, 2*cos(2*pi*k0*j/n) otherwise): n in the bins k0 and
\* n - k0, and the rounding residue in the others.
sinusoid_spectrum(n, k0, residue) ==
  [i \in 1..n |-> IF i - 1 = k0 \/ i - 1 = (n - k0) % n THEN n ELSE residue[i]]

\* The sinusoids of every sample count 2..MaxN on every bin below the
\* Nyquist frequency (2 * k0 < n).
SinusoidProbes ==
  UNION {UNION {{[kind |-> "spectrum", n |-> n, k0 |-> k0, sampling_rate |-> r,
                  fft_values |-> sinusoid_spectrum(n, k0, residue)] :
                    residue \in [1..n -> Residues], r \in SinusoidRates} :
                 k0 \in 0..((n - 1) \div 2)} :
         n \in 2..MaxN}

\* Lines 24-26 on the magnitudes of the n bins: fftfreq and the two slices.
spectrum_half(values, sampling_rate) ==
  [freqs |-> Slice(fftfreq(Len(values), sampling_rate), Len(values) \div 2),
   fft_values |-> Slice(values, Len(values) \div 2)]

\* Line 32: freqs[np.argmax(fft_values)]
dominant(fft) ==
  fft.freqs[argmax(fft.fft_values)]

\* analyze_vibration_data on the samples of the sinusoid: lines 30-36 with
\* np.fft.fft's output given.
PickDominant ==
  /\ probe.kind = "spectrum"
  /\ outcome = NoOutcome
  /\ outcome' =
       Return([RMS |-> [sumsq |-> IF probe.k0 = 0 THEN probe.n ELSE 2 * probe.n,
                        n |-> probe.n],
               DF |-> dominant(spectrum_half(probe.fft_values, probe.sampling_rate))])
  /\ UNCHANGED probe
  /\ UNCHANGED handlers
  /\ UNCHANGED locals
  /\ UNCHANGED shared
  /\ UNCHANGED reader

InitSinusoid ==
  /\ ServiceAtStart
  /\ probe \in SinusoidProbes
  /\ outcome = NoOutcome

NextSinusoid ==
  PickDominant

SpecSinusoid ==
  InitSinusoid /\ [][NextSinusoid]_vars

(* ------------------------------ claims --------------------------------- *)

\* The message decodes to a request.
Decoded(msg) ==
  decode(msg).exc = NoException

\* A request the specification calls valid: samples present, rate positive.
ValidRequest(msg) ==
  Decoded(msg) /\ Len(msg.vibration_data) >= 1 /\ msg.sampling_rate > 0

\* A request the specification calls invalid: no samples, or rate <= 0.
InvalidRequest(msg) ==
  Decoded(msg) /\ (Len(msg.vibration_data) = 0 \/ msg.sampling_rate <= 0)

\* What lines 75-78 make of each message.
Analysis ==
  [m \in Messages |-> analyze_message(m)]

\* The entries of the log appended for message `id` of client c.
Appended(c, id) ==
  {i \in 1..Len(log) : log[i].from = c /\ log[i].id = id}

\* C1: the history buffer never holds more than Capacity entries.
C1_SizeAtMostCapacity ==
  Len(HISTORICAL_DATA) <= Capacity

\* C1 witness: more entries were appended than fit, and the buffer is full.
C1_Witness ==
  Len(log) > Capacity /\ Len(HISTORICAL_DATA) = Capacity

\* C2: after any number of appends the buffer holds exactly the most recent
\* min(Capacity, appends) appended entries, in append order; so the append
\* number Capacity + 1 evicts the oldest entry and nothing else.
C2_FifoLaw ==
  LET n == Len(log)
      k == IF n > Capacity THEN n - Capacity ELSE 0
  IN  /\ Len(HISTORICAL_DATA) = n - k
      /\ \A i \in 1..(n - k) : HISTORICAL_DATA[i] = log[k + i].entry

\* C2 witness: Capacity + 1 appends of pairwise different entries; the first
\* one is gone and the others are there in order.
C2_Witness ==
  /\ Len(log) = Capacity + 1
  /\ \A i, j \in 1..Len(log) : i # j => log[i].entry # log[j].entry
  /\ HISTORICAL_DATA = [i \in 1..Capacity |-> log[i + 1].entry]

\* C3: every message sent while handling a message of client c went to c.
C3_ReplyToSenderOnly ==
  \A r \in sent : r.to = r.from

\* C3 witness: a result has been delivered to one client and an error to
\* the other, and the first one's handler is in the middle of its next call.
C3_Witness ==
  \E c, d \in Clients :
    /\ c # d
    /\ [to |-> c, from |-> c, kind |-> "result"] \in sent
    /\ [to |-> d, from |-> d, kind |-> "error"] \in sent
    /\ pc[c] \in {"update", "append", "send", "except"}

\* C4: a request with no samples or with a rate <= 0 is answered with one
\* error object and no result.
C4_InvalidRequestGetsError ==
  \A c \in Clients :
    (pc[c] = "return" /\ InvalidRequest(message[c]))
      => (Len(reply[c]) = 1 /\ reply[c][1].kind = "error")

\* C5: a message that fails to decode is answered with one error object and
\* appends nothing, and the next valid message on the connection is answered
\* with its result and appends one entry.
C5_DecodeFailureLeavesConnectionUsable ==
  \A c \in Clients :
    pc[c] = "return" =>
      /\ ~Decoded(message[c]) =>
           /\ Len(reply[c]) = 1 /\ reply[c][1].kind = "error"
           /\ Appended(c, msgid[c]) = {}
      /\ (prev[c] = "decode_failed" /\ ValidRequest(message[c])) =>
           /\ Len(reply[c]) = 1 /\ reply[c][1].kind = "result"
           /\ Cardinality(Appended(c, msgid[c])) = 1

\* C5, for requests of two samples or more: holds.
C5_TwoSamplesOrMore ==
  \A c \in Clients :
    pc[c] = "return" =>
      /\ ~Decoded(message[c]) =>
           /\ Len(reply[c]) = 1 /\ reply[c][1].kind = "error"
           /\ Appended(c, msgid[c]) = {}
      /\ (prev[c] = "decode_failed" /\ ValidRequest(message[c])
          /\ Len(message[c].vibration_data) >= 2) =>
           /\ Len(reply[c]) = 1 /\ reply[c][1].kind = "result"
           /\ Cardinality(Appended(c, msgid[c])) = 1

\* C6: a request of one sample with a positive rate is answered with a
\* result whose dominant frequency is 0.
C6_SingleSampleGetsResult ==
  \A c \in Clients :
    (pc[c] = "return" /\ ValidRequest(message[c]) /\ Len(message[c].vibration_data) = 1)
      => /\ Len(reply[c]) = 1
         /\ reply[c][1].kind = "result"
         /\ reply[c][1].DF.num = 0

\* The entry has its three fields.
FullyConstructed(e) ==
  e.Timestamp >= 1 /\ e.RMS # NoValue.RMS /\ e.DF # NoValue.DF

\* C7: when the three comprehensions are done, the three lists have the same
\* length and their i-th elements are the fields of one appended entry.
C7_ReadIsOneSnapshot ==
  rpc = "plot" =>
    /\ Len(timestamps) = Len(rms_values)
    /\ Len(timestamps) = Len(dominant_frequencies)
    /\ \A i \in 1..Len(timestamps) :
         \E j \in 1..Len(log) :
           /\ log[j].entry.Timestamp = timestamps[i]
           /\ log[j].entry.RMS = rms_values[i]
           /\ log[j].entry.DF = dominant_frequencies[i]

\* C8: every entry in the buffer, and so every entry a read finds there, has
\* its timestamp, RMS and frequency, all of the analysis of one message; and
\* every value a read has collected is a value of such an entry.
C8_NoPartialEntry ==
  /\ \A i \in 1..Len(HISTORICAL_DATA) :
       /\ FullyConstructed(HISTORICAL_DATA[i])
       /\ \E j \in 1..Len(log) :
            /\ log[j].entry = HISTORICAL_DATA[i]
            /\ Analysis[log[j].msg].exc = NoException
            /\ HISTORICAL_DATA[i].RMS = Analysis[log[j].msg].value.RMS
            /\ HISTORICAL_DATA[i].DF = Analysis[log[j].msg].value.DF
  /\ \A i \in 1..Len(timestamps) : timestamps[i] >= 1
  /\ \A i \in 1..Len(rms_values) : rms_values[i] # NoValue.RMS
  /\ \A i \in 1..Len(dominant_frequencies) : dominant_frequencies[i] # NoValue.DF

\* C8 witness: the read is in the middle of its last comprehension, having
\* collected values of all three fields, while a handler has built its entry
\* and not yet appended it.
C8_Witness ==
  /\ rpc = "dominant_frequencies"
  /\ Len(dominant_frequencies) >= 1
  /\ iter.counter >= 1
  /\ \E c \in Clients : pc[c] = "append"

\* C9: no exception leaves handle_client_message, whether the send of the
\* result or the send of the error object fails.
C9_SendFailureDoesNotPropagate ==
  \A c \in Clients : pc[c] # "crashed"

\* C10: whatever A sends, a valid message of B whose handling comes to its
\* end was answered with B's own result and appended exactly one entry, which
\* holds that result.
C10_ValidMessageOfBServed ==
  (pc["B"] = "return" /\ ValidRequest(message["B"])) =>
    /\ reply["B"] = <<result_body(analyze_message(message["B"]).value)>>
    /\ analyze_message(message["B"]).exc = NoException
    /\ Cardinality(Appended("B", msgid["B"])) = 1
    /\ \A i \in Appended("B", msgid["B"]) :
         /\ log[i].entry.RMS = analyze_message(message["B"]).value.RMS
         /\ log[i].entry.DF = analyze_message(message["B"]).value.DF

\* C10, for requests of two samples or more: holds.
C10_TwoSamplesOrMore ==
  (pc["B"] = "return" /\ ValidRequest(message["B"])
   /\ Len(message["B"].vibration_data) >= 2) =>
    /\ reply["B"] = <<result_body(analyze_message(message["B"]).value)>>
    /\ analyze_message(message["B"]).exc = NoException
    /\ Cardinality(Appended("B", msgid["B"])) = 1
    /\ \A i \in Appended("B", msgid["B"]) :
         /\ log[i].entry.RMS = analyze_message(message["B"]).value.RMS
         /\ log[i].entry.DF = analyze_message(message["B"]).value.DF

\* The result is one the specification allows for a request of this rate:
\* RMS >= 0 and 0 <= frequency <= rate / 2.
InRange(rms, df, rate) ==
  /\ rms.n >= 1 /\ rms.sumsq >= 0
  /\ df.den >= 1
  /\ df.num >= 0
  /\ 2 * df.num <= rate * df.den

\* C11: every result stored in the history or sent as a success response has
\* RMS >= 0 and a dominant frequency in [0, sampling_rate / 2] of its request.
C11_ResultInRange ==
  /\ \A j \in 1..Len(log) :
       InRange(log[j].entry.RMS, log[j].entry.DF, log[j].msg.sampling_rate)
  /\ \A c \in Clients : \A i \in 1..Len(reply[c]) :
       reply[c][i].kind = "result" =>
         InRange(reply[c][i].RMS, reply[c][i].DF, message[c].sampling_rate)

\* C11, for requests with a positive rate: holds.
C11_PositiveRate ==
  /\ \A j \in 1..Len(log) :
       log[j].msg.sampling_rate > 0 =>
         InRange(log[j].entry.RMS, log[j].entry.DF, log[j].msg.sampling_rate)
  /\ \A c \in Clients : \A i \in 1..Len(reply[c]) :
       (reply[c][i].kind = "result" /\ message[c].sampling_rate > 0) =>
         InRange(reply[c][i].RMS, reply[c][i].DF, message[c].sampling_rate)

\* C15: the timestamps of the buffer's entries are non-decreasing in buffer
\* order.
C15_TimestampsNonDecreasing ==
  \A i, j \in 1..Len(HISTORICAL_DATA) :
    i < j => HISTORICAL_DATA[i].Timestamp <= HISTORICAL_DATA[j].Timestamp

\* The message, once its handling has ended, was answered with this kind of
\* response.
Answered(c, kind) ==
  \E i \in 1..Len(reply[c]) : reply[c][i].kind = kind

\* C16: once the handling of a message has ended, the message answered with
\* an error response has appended nothing, and an entry was appended for the
\* message if and only if its success response was sent to the client.
C16_EntryIffSuccessSent ==
  \A c \in Clients :
    pc[c] \in {"return", "crashed"} =>
      /\ Answered(c, "error") => Appended(c, msgid[c]) = {}
      /\ Appended(c, msgid[c]) # {} <=> Answered(c, "result")

\* C16, as the code has it: a message answered with an error response has
\* appended nothing; one entry is appended for a message if and only if its
\* decoding and analysis succeed, and it is appended before the success
\* response is sent, so it is there when the response reaches the client and
\* stays there when the send fails.
C16_EntryIffAnalysed ==
  \A c \in Clients :
    pc[c] # "idle" =>
      /\ Answered(c, "error") => Appended(c, msgid[c]) = {}
      /\ Answered(c, "result") => Cardinality(Appended(c, msgid[c])) = 1
      /\ Analysis[message[c]].exc # NoException => Appended(c, msgid[c]) = {}
      /\ Analysis[message[c]].exc = NoException =>
           /\ pc[c] \in {"update", "append"} => Appended(c, msgid[c]) = {}
           /\ pc[c] \in {"send", "except", "return", "crashed"} =>
                Cardinality(Appended(c, msgid[c])) = 1
           /\ pc[c] = "return" => Answered(c, "result")
           /\ pc[c] = "crashed" => reply[c] = << >>

\* C16 witness: the send of one client's result failed and its entry is in
\* the history, while another client was answered with an error and has no
\* entry.
C16_Witness ==
  \E c, d \in Clients :
    /\ pc[c] = "crashed" /\ Cardinality(Appended(c, msgid[c])) = 1
    /\ reply[c] = << >>
    /\ \E i \in 1..Len(HISTORICAL_DATA) : HISTORICAL_DATA[i] = entry[c]
    /\ pc[d] = "return" /\ Answered(d, "error") /\ Appended(d, msgid[d]) = {}

\* C17: when its sends succeed, the handling of one message sends exactly one
\* message to its client, a result or an error object.
C17_ExactlyOneResponse ==
  \A c \in Clients :
    pc[c] = "return" =>
      /\ Len(reply[c]) = 1
      /\ reply[c][1].kind \in {"result", "error"}
      /\ Cardinality({w \in sent : w.from = c /\ w.to # c}) = 0

\* C17 witness: one client got its one result, another its one error object.
C17_Witness ==
  \E c, d \in Clients :
    /\ pc[c] = "return" /\ Len(reply[c]) = 1 /\ reply[c][1].kind = "result"
    /\ pc[d] = "return" /\ Len(reply[d]) = 1 /\ reply[d][1].kind = "error"

\* The response lines 75-83 compute from the payload alone.
ResponseOf(msg) ==
  IF Analysis[msg].exc = NoException
  THEN result_body(Analysis[msg].value)
  ELSE error_body(Analysis[msg].exc)

\* C19: every response delivered for a message is the one its payload
\* determines, so two handlings of the same payload deliver the same response
\* whatever the history holds and whatever the other handlers do.
C19_ResponseDependsOnPayloadOnly ==
  /\ \A c \in Clients : \A i \in 1..Len(reply[c]) :
       reply[c][i] = ResponseOf(message[c])
  /\ \A c, d \in Clients :
       (pc[c] = "return" /\ pc[d] = "return" /\ message[c] = message[d])
         => reply[c] = reply[d]

\* C19 witness: two clients were answered for the same payload while the
\* history held an entry of another payload and the clock had moved between
\* their two entries.
C19_Witness ==
  \E c, d \in Clients :
    /\ c # d
    /\ pc[c] = "return" /\ pc[d] = "return"
    /\ message[c] = message[d]
    /\ Len(reply[c]) = 1 /\ reply[c] = reply[d]
    /\ entry[c].Timestamp # entry[d].Timestamp
    /\ \E j \in 1..Len(log) : log[j].msg # message[c]

\* C14: a connect or disconnect event leaves the history buffer as it is and
\* sends no message to any connection.
C14_ConnectEventsChangeNothing ==
  [][(\E c \in Clients : handle_new_client(c) \/ handle_client_left(c))
       => (HISTORICAL_DATA' = HISTORICAL_DATA /\ sent' = sent)]_vars

\* C14 witness: a client whose entry is in the history has left, another
\* client is connected and has been answered, and the history and the
\* deliveries are there.
C14_Witness ==
  \E c, d \in Clients :
    /\ c \notin clients /\ peer[c] = "gone" /\ pc[c] = "crashed"
    /\ \E i \in 1..Len(HISTORICAL_DATA) : HISTORICAL_DATA[i] = entry[c]
    /\ d \in clients /\ pc[d] = "return" /\ Len(reply[d]) = 1
    /\ \E w \in sent : w.to = d

\* C18: a step either leaves the buffer as it is or appends one entry at its
\* end, dropping the oldest entry when the buffer is full: the entries that
\* stay keep their fields and their order.
C18_EntriesOnlyAppendedOrEvicted ==
  [][\/ HISTORICAL_DATA' = HISTORICAL_DATA
     \/ /\ Len(HISTORICAL_DATA) < Capacity
        /\ Len(HISTORICAL_DATA') = Len(HISTORICAL_DATA) + 1
        /\ \A i \in 1..Len(HISTORICAL_DATA) : HISTORICAL_DATA'[i] = HISTORICAL_DATA[i]
     \/ /\ Len(HISTORICAL_DATA) = Capacity
        /\ Len(HISTORICAL_DATA') = Capacity
        /\ \A i \in 1..(Capacity - 1) : HISTORICAL_DATA'[i] = HISTORICAL_DATA[i + 1]]_vars

\* C18 witness: the main thread has read the buffer to the end when it held
\* one entry, and later appends have filled the buffer and evicted an entry.
C18_Witness ==
  /\ rpc = "plot" /\ Len(timestamps) = 1
  /\ Len(log) > Capacity /\ Len(HISTORICAL_DATA) = Capacity
  /\ \A i \in 1..Capacity : HISTORICAL_DATA[i] = log[Len(log) - Capacity + i].entry

\* The frequency df is the one of bin k for n samples at this rate.
IsBinFrequency(df, k, n, rate) ==
  df.den > 0 /\ df.num * n = k * rate * df.den

\* C13: the dominant frequency returned is k * sampling_rate / n for a bin k
\* of maximum magnitude among the first n \div 2 bins, the DC bin included;
\* when the magnitude of bin 0 is the largest of those bins, it is 0 Hz.
C13_DominantIsMaxBin ==
  (probe.kind = "samples" /\ outcome.exc = NoException) =>
    LET n == Len(probe.vibration_data)
        magnitude == fft_abs(probe.vibration_data)
        bins == 0..((n \div 2) - 1)
        df == outcome.value.DF
    IN  /\ \E k \in bins :
             /\ \A j \in bins : magnitude[j + 1] <= magnitude[k + 1]
             /\ IsBinFrequency(df, k, n, probe.sampling_rate)
        /\ (\A j \in bins \ {0} : magnitude[j + 1] < magnitude[1]) => df.num = 0

\* C13 witness: six samples with content in the bins 1 and 2 and a larger
\* DC bin: 0 Hz is returned.
C13_Witness ==
  /\ probe.kind = "samples" /\ outcome.exc = NoException
  /\ probe.sampling_rate > 0
  /\ Len(probe.vibration_data) = 6
  /\ fft_abs(probe.vibration_data)[2] > 0
  /\ fft_abs(probe.vibration_data)[3] > 0
  /\ fft_abs(probe.vibration_data)[1] > fft_abs(probe.vibration_data)[2]
  /\ fft_abs(probe.vibration_data)[1] > fft_abs(probe.vibration_data)[3]
  /\ outcome.value.DF.num = 0

\* The frequency df is within one bin width of the frequency of bin k0.
WithinOneBin(df, k0, n, rate) ==
  /\ df.den > 0
  /\ df.num * n - k0 * rate * df.den <= rate * df.den
  /\ k0 * rate * df.den - df.num * n <= rate * df.den

\* C12: for the sinusoid of a bin below the Nyquist frequency, with any
\* sample count n >= 2, the dominant frequency returned is within one bin
\* width (sampling_rate / n) of the sinusoid's frequency.
C12_WithinOneBinWidth ==
  (probe.kind = "spectrum" /\ outcome.exc = NoException) =>
    WithinOneBin(outcome.value.DF, probe.k0, probe.n, probe.sampling_rate)

\* C12, for the bins the search covers (k0 < n \div 2, which is every bin
\* below the Nyquist frequency when n is even): the frequency of the
\* sinusoid itself is returned.
C12_SearchedBins ==
  (probe.kind = "spectrum" /\ outcome.exc = NoException
     /\ probe.k0 < probe.n \div 2) =>
    IsBinFrequency(outcome.value.DF, probe.k0, probe.n, probe.sampling_rate)

====
